---- MODULE Spec2Model ----
(***************************************************************************)
(* Model of logutil.py: structured log-message formatting (event, start,   *)
(* end), the key/value encoder (_format_kvp), the message templates        *)
(* (_MESSAGE_FORMATS) and the start()/end() wrappers (wrap_func,           *)
(* wrap_method).                                                           *)
(*                                                                         *)
(* Representation.  A Python string is a sequence of one-character         *)
(* strings, so that searching, replacing, joining and splitting are        *)
(* computed and not assumed.  A time is a reading of time.time(), as an    *)
(* integer number of nanoseconds since the epoch; a difference of two      *)
(* readings is exact.  '{:.6f}' and isoformat() round what they are given  *)
(* to the microsecond, each on its own: the duration shown is the rounded  *)
(* difference, not the difference of the rounded readings.  At an exact    *)
(* half microsecond (an odd multiple of 500 ns) the digit printed depends  *)
(* on the binary value of the float and on the interpreter: '{:.6f}'       *)
(* rounds the binary value, fromtimestamp rounds half away from zero in    *)
(* CPython 2.7 and half to even in CPython 3.  Either neighbour can be     *)
(* printed, and the timestamp and the duration need not agree, so the      *)
(* direction is a choice made at each call.  The local zone is the         *)
(* variable tz.  An optional argument is <<>> for None and <<v>> for the   *)
(* value v.  A call of event, start or end reads the clock and builds its  *)
(* message first and hands it to the logger afterwards; between the two,   *)
(* another thread's call may run.                                          *)
(***************************************************************************)
EXTENDS Integers, Sequences, FiniteSets, TLC

VARIABLES
    include_timestamp, \* module flag, logutil.py:26
    tz,                \* the local zone: seconds east of UTC
    now,               \* the wall clock that time.time() reads (nanoseconds)
    log,               \* what the backend received: <<[level, msg], ...>>
    calls,             \* history: the event/start/end calls made, in order
    act,               \* caller side: the handle each activity holds
    inv,               \* the invocations of wrapped callables
    kvpIn,             \* argument of _format_kvp
    kvpOut             \* <<>> before the call, <<result>> after it

vars == <<include_timestamp, tz, now, log, calls, act, inv, kvpIn, kvpOut>>

-----------------------------------------------------------------------------
(* Bounds of the model *)

MaxPairs == 2      \* attributes in one attribute set
MaxCalls == 2      \* event/start/end calls of one run of Spec
MaxTicks == 2      \* clock advances of one run
MaxInts == 1       \* integer attribute values range over -MaxInts..MaxInts

-----------------------------------------------------------------------------
(* Python values *)

None == <<>>
Some(x) == <<x>>
Val(o) == o[1]

StrV(s) == [type |-> "str", s |-> s, n |-> 0]
IntV(n) == [type |-> "int", s |-> <<>>, n |-> n]
BoolV(b) == [type |-> "bool", s |-> <<>>, n |-> IF b THEN 1 ELSE 0]
NoneV == [type |-> "none", s |-> <<>>, n |-> 0]

RECURSIVE Concat(_)
\* ''.join(parts)
Concat(parts) ==
    IF parts = <<>> THEN <<>> ELSE Head(parts) \o Concat(Tail(parts))

DigitChar(d) == <<"0", "1", "2", "3", "4", "5", "6", "7", "8", "9">>[d + 1]

RECURSIVE Digits(_)
\* decimal digits of a natural number
Digits(n) ==
    IF n < 10 THEN <<DigitChar(n)>>
    ELSE Digits(n \div 10) \o <<DigitChar(n % 10)>>

\* str(n) for an int
IntStr(n) == IF n < 0 THEN <<"-">> \o Digits(-n) ELSE Digits(n)

RECURSIVE ZeroPad(_, _)
\* the digits of n, padded with zeros on the left to the given width
ZeroPad(n, width) ==
    IF width <= 1 THEN Digits(n)
    ELSE IF Len(Digits(n)) >= width THEN Digits(n)
    ELSE <<"0">> \o ZeroPad(n, width - 1)

\* '{}'.format(v): the natural string form of an attribute value
PyStr(v) ==
    CASE v.type = "str" -> v.s
      [] v.type = "int" -> IntStr(v.n)
      [] v.type = "bool" -> IF v.n = 1 THEN <<"T", "r", "u", "e">>
                            ELSE <<"F", "a", "l", "s", "e">>
      [] OTHER -> <<"N", "o", "n", "e">>

\* sub in s, for a one-character sub
Contains(s, c) == \E i \in 1..Len(s) : s[i] = c

RECURSIVE Replace(_, _, _)
\* s.replace(c, by), for a one-character c
Replace(s, c, by) ==
    IF s = <<>> THEN <<>>
    ELSE (IF Head(s) = c THEN by ELSE <<Head(s)>>) \o Replace(Tail(s), c, by)

RECURSIVE Join(_, _)
\* sep.join(parts)
Join(sep, parts) ==
    IF parts = <<>> THEN <<>>
    ELSE IF Len(parts) = 1 THEN parts[1]
    ELSE parts[1] \o sep \o Join(sep, Tail(parts))

-----------------------------------------------------------------------------
(* Message format constants, logutil.py:34-46 *)

_KVPSECSEP == <<" ", ";", " ">>
_KVPSEP == <<",">>
_KVSEP == <<"=">>

\* logging.INFO; logging.DEBUG is what examples/hello.py passes
DEFAULT_LEVEL == 20
DEBUG == 10

-----------------------------------------------------------------------------
(* _format_kvp, logutil.py:232-247 *)

\* the loop body: the value that is appended to pairs for a value v
_format_kvp_value(v) ==
    IF v.type = "str"
    THEN IF Contains(v.s, _KVPSEP[1])
         THEN StrV(Replace(v.s, ",", <<"\\", ",">>))
         ELSE IF Len(v.s) = 0 THEN StrV(<<"'", "'">>) ELSE v
    ELSE v

\* a slip in the join: the key separator used between the pairs
_format_kvp_keysep(d) ==
    LET pairs == [i \in 1..Len(d) |-> <<d[i][1], _format_kvp_value(d[i][2])>>]
    IN  Join(_KVSEP,
             [i \in 1..Len(pairs) |->
                 pairs[i][1] \o _KVSEP \o PyStr(pairs[i][2])])

\* d is the dictionary in its iteration order: a sequence of <<key, value>>
_format_kvp(d) ==
    LET pairs == [i \in 1..Len(d) |-> <<d[i][1], _format_kvp_value(d[i][2])>>]
    IN  Join(_KVPSEP,
             [i \in 1..Len(pairs) |->
                 pairs[i][1] \o _KVSEP \o PyStr(pairs[i][2])])

-----------------------------------------------------------------------------
(* Templates, logutil.py:37-46.  A template is a sequence of parts: a      *)
(* one-character string stands for itself, a replacement field for the     *)
(* value str.format() puts in its place.                                   *)

F_TIMESTAMP == "{timestamp}"
F_FUNC_NAME == "{func_name}"
F_KVP == "{kvp}"
F_DUR == "{dur}"

BEGIN_TEXT == <<".", "b", "e", "g", "i", "n">>
END_TEXT == <<".", "e", "n", "d">>

_MESSAGE_FORMATS ==
    [ts \in BOOLEAN |->
        IF ~ts
        THEN [entry |-> <<F_FUNC_NAME>> \o BEGIN_TEXT \o _KVPSECSEP \o <<F_KVP>>,
              exit |-> <<F_FUNC_NAME>> \o END_TEXT \o <<" ", "(", F_DUR, ")">>
                          \o _KVPSECSEP \o <<F_KVP>>,
              exit_nodur |-> <<F_FUNC_NAME>> \o END_TEXT \o _KVPSECSEP \o <<F_KVP>>,
              event |-> <<F_FUNC_NAME>> \o _KVPSECSEP \o <<F_KVP>>]
        ELSE [entry |-> <<F_TIMESTAMP, " ", F_FUNC_NAME>> \o BEGIN_TEXT
                          \o _KVPSECSEP \o <<F_KVP>>,
              exit |-> <<F_TIMESTAMP, " ", F_FUNC_NAME>> \o END_TEXT
                          \o <<" ", "(", F_DUR, ")">> \o _KVPSECSEP \o <<F_KVP>>,
              exit_nodur |-> <<F_FUNC_NAME>> \o END_TEXT \o _KVPSECSEP \o <<F_KVP>>,
              event |-> <<F_TIMESTAMP, " ", F_FUNC_NAME>> \o _KVPSECSEP \o <<F_KVP>>]]

\* logutil.py:229-230
_default_message(mtype) == _MESSAGE_FORMATS[include_timestamp][mtype]

\* fmt.format(**d): d is a record of strings; fields d has and the template
\* does not name are ignored
Format(fmt, d) ==
    Concat([i \in 1..Len(fmt) |->
        CASE fmt[i] = F_TIMESTAMP -> d.timestamp
          [] fmt[i] = F_FUNC_NAME -> d.func_name
          [] fmt[i] = F_KVP -> d.kvp
          [] fmt[i] = F_DUR -> d.dur
          [] OTHER -> <<fmt[i]>>])

\* the directions in which ns nanoseconds may be rounded to the microsecond:
\* only an exact half leaves a choice (TRUE: up, FALSE: down)
TieChoices(ns) == IF ns % 1000 = 500 THEN BOOLEAN ELSE {FALSE}

\* ns nanoseconds (ns >= 0) rounded to whole microseconds, an exact half
\* going up when up holds and down otherwise: what datetime.fromtimestamp
\* and '{:.6f}' keep of a float
RoundMicros(ns, up) ==
    LET q == ns \div 1000
        r == ns % 1000
    IN  IF r > 500 \/ (r = 500 /\ up) THEN q + 1 ELSE q

\* the local dates around the epoch
DateText(day) ==
    IF day < 0 THEN <<"1", "9", "6", "9", "-", "1", "2", "-", "3", "1">>
    ELSE IF day = 0 THEN <<"1", "9", "7", "0", "-", "0", "1", "-", "0", "1">>
    ELSE <<"1", "9", "7", "0", "-", "0", "1", "-", "0", "2">>

\* format_timestamp, logutil.py:250: datetime.fromtimestamp(t).isoformat(),
\* for a reading t (nanoseconds) within a day of the epoch.  fromtimestamp
\* rounds t to the microsecond and converts to the local zone; isoformat()
\* leaves the fraction out when the microsecond is 0.
format_timestamp(t, up) ==
    LET micros == RoundMicros(t, up)
        local == micros \div 1000000 + tz
        day == local \div 86400
        secs == local % 86400
        us == micros % 1000000
    IN  DateText(day) \o <<"T">>
            \o ZeroPad(secs \div 3600, 2) \o <<":">>
            \o ZeroPad((secs \div 60) % 60, 2) \o <<":">>
            \o ZeroPad(secs % 60, 2)
            \o (IF us = 0 THEN <<>> ELSE <<".">> \o ZeroPad(us, 6))

\* '{:.6f}'.format(x) for x = ns nanoseconds: the sign of x, then |x|
\* rounded to six digits (a negative x that rounds to 0 prints -0.000000)
FormatDur(ns, up) ==
    LET a == RoundMicros(IF ns < 0 THEN -ns ELSE ns, up)
    IN  (IF ns < 0 THEN <<"-">> ELSE <<>>)
            \o Digits(a \div 1000000) \o <<".">> \o ZeroPad(a % 1000000, 6)

\* kvp_str = _format_kvp(kvp) if kvp else '', logutil.py:65, 88, 112
kvp_str(kvp) == IF kvp # <<>> THEN _format_kvp(kvp) ELSE <<>>

\* if level is None: level = DEFAULT_LEVEL, logutil.py:70-71, 93-94, 122-123
LevelOf(level) == IF level = None THEN DEFAULT_LEVEL ELSE Val(level)

\* the message event() builds, logutil.py:65-69
event_message(t0, name, fmt, kvp, up) ==
    LET d == [timestamp |-> format_timestamp(t0, up), func_name |-> name,
              kvp |-> kvp_str(kvp)]
        f == IF fmt # None /\ Val(fmt) # <<>> THEN Val(fmt)
             ELSE _default_message("event")
    IN  Format(f, d)

\* the message start() builds, logutil.py:88-92
start_message(t0, name, kvp, up) ==
    LET d == [timestamp |-> format_timestamp(t0, up), func_name |-> name,
              kvp |-> kvp_str(kvp)]
    IN  Format(_default_message("entry"), d)

\* a module that remembered the time of the latest start() and measured
\* from it, instead of from the handle it is given
elapsed_from_latest_start(t1, t0) ==
    LET S == {k \in 1..Len(calls) : calls[k].op = "start"}
    IN  IF S = {} THEN t1 - t0
        ELSE t1 - calls[CHOOSE k \in S : \A j \in S : j <= k].t

\* t1 - t0, logutil.py:118
elapsed(t1, t0) == t1 - t0

\* a slip in the test of the handle: its truth value instead of "is not None"
end_shape_truthy(t0) ==
    IF t0 # None /\ Val(t0) # 0 THEN "exit" ELSE "exit_nodur"

\* the template end() chooses, logutil.py:117-121
end_shape(t0) == IF t0 # None THEN "exit" ELSE "exit_nodur"

\* the message end() builds, logutil.py:112-121, 124
end_message(t1, name, t0, status_code, kvp, up, up_dur) ==
    LET d0 == [timestamp |-> format_timestamp(t1, up), func_name |-> name,
               kvp |-> kvp_str(kvp), status |-> IntStr(status_code)]
        d == IF end_shape(t0) = "exit"
             THEN [f \in DOMAIN d0 \cup {"dur"} |->
                      IF f = "dur"
                      THEN FormatDur(elapsed(t1, Val(t0)), up_dur)
                      ELSE d0[f]]
             ELSE d0
    IN  Format(_default_message(end_shape(t0)), d)

\* a formatter that filtered by severity itself
Emit_filtered(level, msg) ==
    IF level < DEFAULT_LEVEL THEN log
    ELSE Append(log, [level |-> level, msg |-> msg])

\* logger.log(level, msg): the backend receives the pair
Emit(level, msg) == Append(log, [level |-> level, msg |-> msg])

\* the record of one call, kept to state what the backend must have seen
CallRec(op, name, t, t0, level, status, kvp, fmt, who) ==
    [op |-> op, name |-> name, t |-> t, t0 |-> t0, level |-> level,
     status |-> status, kvp |-> kvp, fmt |-> fmt, who |-> who]

\* the choices a call makes where its roundings are ties: one for the
\* timestamp of the reading t, one for the duration since the handle t0
Ups(t, t0) ==
    [ts : TieChoices(t),
     dur : IF t0 = None THEN {FALSE} ELSE TieChoices(elapsed(t, Val(t0)))]

\* event() up to its call of the logger, logutil.py:64-71: the clock is
\* read and the message built
event_call(name, level, fmt, kvp, who, up) ==
    [level |-> LevelOf(level),
     msg |-> event_message(now, name, fmt, kvp, up.ts),
     rec |-> CallRec("event", name, now, None, level, 0, kvp, fmt, who)]

\* start() up to its call of the logger, logutil.py:87-94
start_call(name, level, kvp, who, up) ==
    [level |-> LevelOf(level),
     msg |-> start_message(now, name, kvp, up.ts),
     rec |-> CallRec("start", name, now, None, level, 0, kvp, None, who)]

\* end() up to its call of the logger, logutil.py:111-124
end_call(name, t0, level, status_code, kvp, who, up) ==
    [level |-> LevelOf(level),
     msg |-> end_message(now, name, t0, status_code, kvp, up.ts, up.dur),
     rec |-> CallRec("end", name, now, t0, level, status_code, kvp, None, who)]

\* logger.log(level, msg) of a call c, logutil.py:72, 95, 124
logger_log(c) ==
    /\ log' = Emit(c.level, c.msg)
    /\ calls' = Append(calls, c.rec)

\* event(logger, name, level, fmt, **kvp), logutil.py:52-73, when no other
\* thread runs in between; returns the time
event(name, level, fmt, kvp, who) ==
    \E up \in Ups(now, None) :
        logger_log(event_call(name, level, fmt, kvp, who, up))

\* start(logger, name, level, **kvp), logutil.py:76-96, when no other thread
\* runs in between; returns the time
start(name, level, kvp, who) ==
    \E up \in Ups(now, None) :
        logger_log(start_call(name, level, kvp, who, up))

\* end(logger, name, t0, level, status_code, **kvp), logutil.py:98-124, when
\* no other thread runs in between
end(name, t0, level, status_code, kvp, who) ==
    \E up \in Ups(now, t0) :
        logger_log(end_call(name, t0, level, status_code, kvp, who, up))

-----------------------------------------------------------------------------
(* The wall clock, read by time.time() at logutil.py:64, 87, 111 *)

\* the step of the clock: 0.5000005 s, so that a reading, and a difference
\* of readings, can be an exact half microsecond
TickNanos == 500000500

Tick ==
    /\ now + TickNanos <= MaxTicks * TickNanos
    /\ now' = now + TickNanos
    /\ UNCHANGED <<include_timestamp, tz, log, calls, act, inv, kvpIn, kvpOut>>

\* the system clock is set back: time.time() is not monotonic
ClockSetBack ==
    /\ now > 0
    /\ \E t \in 0..(now \div TickNanos - 1) : now' = t * TickNanos
    /\ UNCHANGED <<include_timestamp, tz, log, calls, act, inv, kvpIn, kvpOut>>

-----------------------------------------------------------------------------
(* Direct calls of event, start and end by one caller, which attaches the  *)
(* attribute set kvpIn to its calls, gives its events any name and starts  *)
(* and ends under one name.  The clock only advances here; the clock that  *)
(* is also set back is part of SpecAct.                                    *)

Names == {<<"j", "o", "b">>, <<"m">>}
Levels == {None, Some(DEBUG)}
KvpInputs == {<<>>, <<<< <<"n">>, IntV(5) >>, << <<"k", "2">>, StrV(<<>>) >>>>}
CustomFmt == <<F_FUNC_NAME, "!", F_KVP>>
Fmts == {None, Some(CustomFmt)}
StatusCodes == {0, 1}

\* the handles the caller holds: what earlier start and event calls returned
Handles == {calls[k].t : k \in {j \in 1..Len(calls) : calls[j].op # "end"}}

DIRECT == <<"direct", 0>>

\* the name the caller starts and ends under
DirectName == <<"j", "o", "b">>

\* the local zones: UTC, and eight hours west of it; the zone shows in the
\* timestamp only
ZoneOffsets(ts) == IF ts THEN {0, -28800} ELSE {0}

Init ==
    /\ include_timestamp \in BOOLEAN
    /\ tz \in ZoneOffsets(include_timestamp)
    /\ now = 0
    /\ log = <<>>
    /\ calls = <<>>
    /\ act = <<>>
    /\ inv = <<>>
    /\ kvpIn \in KvpInputs
    /\ kvpOut = None

Event ==
    /\ Len(calls) < MaxCalls
    /\ \E name \in Names, level \in Levels, fmt \in Fmts :
          event(name, level, fmt, kvpIn, DIRECT)
    /\ UNCHANGED <<include_timestamp, tz, now, act, inv, kvpIn, kvpOut>>

Start ==
    /\ Len(calls) < MaxCalls
    /\ \E level \in Levels :
          start(DirectName, level, kvpIn, DIRECT)
    /\ UNCHANGED <<include_timestamp, tz, now, act, inv, kvpIn, kvpOut>>

End ==
    /\ Len(calls) < MaxCalls
    /\ \E level \in Levels, status_code \in StatusCodes,
          t0 \in {None} \cup {Some(h) : h \in Handles} :
          end(DirectName, t0, level, status_code, kvpIn, DIRECT)
    /\ UNCHANGED <<include_timestamp, tz, now, act, inv, kvpIn, kvpOut>>

Next == Event \/ Start \/ End \/ Tick

Spec == Init /\ [][Next]_vars

-----------------------------------------------------------------------------
(* Activities: the caller keeps the handle start() returned and passes it  *)
(* to end(), as examples/basic.py:17-19 and examples/hello.py:50-56 do.    *)
(* Several activities may be active at once, each in a thread of its own.  *)

\* two activities at a time
Acts == {1, 2}

IdleAct == [pc |-> "idle", name |-> <<>>, t0 |-> None, pending |-> None]

InitAct ==
    /\ include_timestamp \in BOOLEAN
    /\ tz \in ZoneOffsets(include_timestamp)
    /\ now = 0
    /\ log = <<>>
    /\ calls = <<>>
    /\ act = [a \in Acts |-> IdleAct]
    /\ inv = <<>>
    /\ kvpIn \in KvpInputs
    /\ kvpOut = None

\* t0 = start(log, name, **kvp): start() reads the clock and builds the
\* message, logutil.py:87-94
ActStart(a) ==
    /\ act[a].pc = "idle"
    /\ \E name \in Names, up \in Ups(now, None) :
          act' = [act EXCEPT ![a] =
                     [pc |-> "starting", name |-> name, t0 |-> Some(now),
                      pending |->
                          Some(start_call(name, None, kvpIn, <<"act", a>>, up))]]
    /\ UNCHANGED <<include_timestamp, tz, now, log, calls, inv, kvpIn, kvpOut>>

\* start() hands the message to the logger and returns the reading,
\* logutil.py:95-96
ActStartLog(a) ==
    /\ act[a].pc = "starting"
    /\ logger_log(Val(act[a].pending))
    /\ act' = [act EXCEPT ![a].pc = "active", ![a].pending = None]
    /\ UNCHANGED <<include_timestamp, tz, now, inv, kvpIn, kvpOut>>

\* end(log, name, t0, **kvp): end() reads the clock and builds the message,
\* logutil.py:111-123
ActEnd(a) ==
    /\ act[a].pc = "active"
    /\ \E up \in Ups(now, act[a].t0) :
          act' = [act EXCEPT ![a].pc = "ending",
                             ![a].pending =
                                 Some(end_call(act[a].name, act[a].t0, None, 0,
                                               kvpIn, <<"act", a>>, up))]
    /\ UNCHANGED <<include_timestamp, tz, now, log, calls, inv, kvpIn, kvpOut>>

\* end() hands the message to the logger, logutil.py:124
ActEndLog(a) ==
    /\ act[a].pc = "ending"
    /\ logger_log(Val(act[a].pending))
    /\ act' = [act EXCEPT ![a].pc = "done", ![a].pending = None]
    /\ UNCHANGED <<include_timestamp, tz, now, inv, kvpIn, kvpOut>>

NextAct ==
    \/ \E a \in Acts : ActStart(a)
    \/ \E a \in Acts : ActStartLog(a)
    \/ \E a \in Acts : ActEnd(a)
    \/ \E a \in Acts : ActEndLog(a)
    \/ Tick
    \/ ClockSetBack

SpecAct == InitAct /\ [][NextAct]_vars

-----------------------------------------------------------------------------
(* wrap_func and wrap_method, logutil.py:126-178 *)

\* the names of end()'s parameters that a keyword of the wrapper's **kvp can
\* meet, logutil.py:98 (logger, name and level are parameters of wrap_func
\* and wrap_method themselves, so they never are keys of kvp)
K_T0 == <<"t", "0">>
K_STATUS_CODE == <<"s", "t", "a", "t", "u", "s", "_", "c", "o", "d", "e">>

\* the decorated callables: name is the decorator's name argument, kvp the
\* decorator's keyword arguments
Wrappers ==
    { [kind |-> "func", name |-> None, callable |-> <<"h", "i">>,
       level |-> DEFAULT_LEVEL, kvp |-> <<>>],
      [kind |-> "method", name |-> Some(<<"m">>), callable |-> <<"r", "u", "n">>,
       level |-> DEBUG, kvp |-> <<<< <<"n">>, IntV(5) >>>>],
      [kind |-> "func", name |-> Some(<<>>), callable |-> <<"h", "i">>,
       level |-> DEBUG, kvp |-> <<<< K_STATUS_CODE, IntV(1) >>>>],
      [kind |-> "func", name |-> None, callable |-> <<"h", "i">>,
       level |-> DEFAULT_LEVEL, kvp |-> <<<< K_T0, IntV(1) >>>>] }

\* the dictionary d has the key k
HasKey(d, k) == \E j \in 1..Len(d) : d[j][1] = k

\* d[k]
Lookup(d, k) == d[CHOOSE j \in 1..Len(d) : d[j][1] = k][2]

\* d without the key k
Without(d, k) == SelectSeq(d, LAMBDA p : p[1] # k)

\* func_name = name or func.__name__, logutil.py:139, 166
func_name(w) ==
    IF w.name # None /\ Val(w.name) # <<>> THEN Val(w.name) ELSE w.callable

\* two invocations, which may overlap, each in a thread of its own; 1 is
\* the one whose start() reads the clock first
Invs == {1, 2}
\* the arguments of the invocations: none for the first, one for the second
ArgsOf(i) == IF i = 1 THEN <<>> ELSE <<IntV(1)>>
Results == {NoneV, IntV(7)}
Errors == {"ValueError", "KeyError"}

IdleInv ==
    [pc |-> "idle", w |-> None, args |-> <<>>, recv |-> None, t0 |-> None,
     res |-> None, ret |-> None, raised |-> None, exc |-> None,
     pending |-> None, callAt |-> 0, retAt |-> 0]

InitWrap ==
    /\ include_timestamp \in BOOLEAN
    /\ tz \in ZoneOffsets(include_timestamp)
    /\ now = 0
    /\ log = <<>>
    /\ calls = <<>>
    /\ act = <<>>
    /\ inv = [i \in Invs |-> IdleInv]
    /\ kvpIn = <<>>
    /\ kvpOut = None

\* end(logger, func_name, t0, level=level, **kvp), logutil.py:145, 172, up
\* to its call of the logger.  The call binds the keywords of kvp that are
\* names of end()'s parameters to these parameters: a key status_code
\* becomes the status code and is no attribute of the exit message.
wrapper_end(i, up) ==
    LET w == Val(inv[i].w)
        status_code == IF HasKey(w.kvp, K_STATUS_CODE)
                       THEN Lookup(w.kvp, K_STATUS_CODE).n
                       ELSE 0
    IN  end_call(func_name(w), inv[i].t0, Some(w.level), status_code,
                 Without(w.kvp, K_STATUS_CODE), <<"inv", i>>, up)

\* the call end(logger, func_name, t0, level=level, **kvp) cannot be made:
\* t0 is given by position and by keyword (TypeError: end() got multiple
\* values for argument 't0')
wrapper_end_fails(i) == HasKey(Val(inv[i].w).kvp, K_T0)

\* a wrapper that logs the end in a finally block
wrapper_on_raise_logs(i) ==
    \E up \in Ups(now, inv[i].t0) : logger_log(wrapper_end(i, up))

\* what the wrapper does to the log when the callable raises: nothing, the
\* call at logutil.py:144, 171 is in no try block
wrapper_on_raise(i) == UNCHANGED <<log, calls>>

\* the wrapper is called with args: t0 = start(...), logutil.py:143, 170;
\* start() reads the clock and builds the message, logutil.py:87-94
WrapCall(i) ==
    /\ inv[i].pc = "idle"
    /\ \A j \in Invs : j < i => inv[j].pc # "idle"
    /\ \E w \in Wrappers, up \in Ups(now, None) :
          inv' = [inv EXCEPT ![i] =
                     [IdleInv EXCEPT !.pc = "starting", !.w = Some(w),
                                     !.args = ArgsOf(i), !.t0 = Some(now),
                                     !.pending =
                                         Some(start_call(func_name(w),
                                                         Some(w.level), w.kvp,
                                                         <<"inv", i>>, up))]]
    /\ UNCHANGED <<include_timestamp, tz, now, log, calls, act, kvpIn, kvpOut>>

\* start() hands the message to the logger, logutil.py:95
WrapStartLog(i) ==
    /\ inv[i].pc = "starting"
    /\ logger_log(Val(inv[i].pending))
    /\ inv' = [inv EXCEPT ![i].pc = "started", ![i].pending = None]
    /\ UNCHANGED <<include_timestamp, tz, now, act, kvpIn, kvpOut>>

\* start() returns, logutil.py:96, and the callable is invoked with the
\* wrapper's arguments, logutil.py:144, 171
FuncInvoked(i) ==
    /\ inv[i].pc = "started"
    /\ inv' = [inv EXCEPT ![i].pc = "running", ![i].recv = Some(inv[i].args),
                          ![i].callAt = Len(log)]
    /\ UNCHANGED <<include_timestamp, tz, now, log, calls, act, kvpIn, kvpOut>>

\* the callable returns r, logutil.py:144, 171
FuncReturns(i) ==
    /\ inv[i].pc = "running"
    /\ \E r \in Results :
          inv' = [inv EXCEPT ![i].pc = "func_returned", ![i].res = Some(r),
                             ![i].retAt = Len(log)]
    /\ UNCHANGED <<include_timestamp, tz, now, log, calls, act, kvpIn, kvpOut>>

\* end(...), logutil.py:145, 172: end() reads the clock and builds the
\* message, logutil.py:111-123
WrapEnd(i) ==
    /\ inv[i].pc = "func_returned"
    /\ ~wrapper_end_fails(i)
    /\ \E up \in Ups(now, inv[i].t0) :
          inv' = [inv EXCEPT ![i].pc = "ending",
                             ![i].pending = Some(wrapper_end(i, up))]
    /\ UNCHANGED <<include_timestamp, tz, now, log, calls, act, kvpIn, kvpOut>>

\* the call of end(...), logutil.py:145, 172, raises TypeError before end()
\* runs: nothing is logged, the result is lost and the TypeError leaves the
\* wrapper
EndRaises(i) ==
    /\ inv[i].pc = "func_returned"
    /\ wrapper_end_fails(i)
    /\ inv' = [inv EXCEPT ![i].pc = "end_raised", ![i].exc = Some("TypeError")]
    /\ UNCHANGED <<include_timestamp, tz, now, log, calls, act, kvpIn, kvpOut>>

\* end() hands the message to the logger, logutil.py:124; return returnval,
\* logutil.py:146, 173
WrapEndLog(i) ==
    /\ inv[i].pc = "ending"
    /\ logger_log(Val(inv[i].pending))
    /\ inv' = [inv EXCEPT ![i].pc = "returned", ![i].ret = inv[i].res,
                          ![i].pending = None]
    /\ UNCHANGED <<include_timestamp, tz, now, act, kvpIn, kvpOut>>

\* the callable raises e: the exception leaves the wrapper
FuncRaises(i) ==
    /\ inv[i].pc = "running"
    /\ \E e \in Errors :
          /\ wrapper_on_raise(i)
          /\ inv' = [inv EXCEPT ![i].pc = "raised", ![i].raised = Some(e),
                                ![i].retAt = Len(log), ![i].exc = Some(e)]
    /\ UNCHANGED <<include_timestamp, tz, now, act, kvpIn, kvpOut>>

NextWrap ==
    \/ \E i \in Invs : WrapCall(i)
    \/ \E i \in Invs : WrapStartLog(i)
    \/ \E i \in Invs : FuncInvoked(i)
    \/ \E i \in Invs : FuncReturns(i)
    \/ \E i \in Invs : WrapEnd(i)
    \/ \E i \in Invs : EndRaises(i)
    \/ \E i \in Invs : WrapEndLog(i)
    \/ \E i \in Invs : FuncRaises(i)
    \/ Tick

SpecWrap == InitWrap /\ [][NextWrap]_vars

-----------------------------------------------------------------------------
(* Inputs of the encoder *)

Keys == {<<"n">>, <<"k", "2">>}

StrValues ==
    { <<>>, <<"x">>, <<"'", "'">>, <<"a", ",", "b">>, <<",">>, <<"u", "=", "v">>,
      <<"5">> }

Values ==
    {StrV(s) : s \in StrValues}
        \cup {IntV(n) : n \in (-MaxInts..MaxInts) \cup {12}}
        \cup {BoolV(TRUE), BoolV(FALSE), NoneV}

\* dictionaries: sequences of pairs with distinct keys, in any iteration order
AttrSets ==
    UNION { { d \in [1..n -> Keys \X Values] :
                \A i, j \in 1..n : i # j => d[i][1] # d[j][1] } :
            n \in 0..MaxPairs }

-----------------------------------------------------------------------------
(* The encoder alone: one call of _format_kvp on any attribute set *)

InitKvp ==
    /\ include_timestamp = TRUE
    /\ tz = 0
    /\ now = 0
    /\ log = <<>>
    /\ calls = <<>>
    /\ act = <<>>
    /\ inv = <<>>
    /\ kvpIn \in AttrSets
    /\ kvpOut = None

Encode ==
    /\ kvpOut = None
    /\ kvpOut' = Some(_format_kvp(kvpIn))
    /\ UNCHANGED <<include_timestamp, tz, now, log, calls, act, inv, kvpIn>>

NextKvp == Encode

SpecKvp == InitKvp /\ [][NextKvp]_vars

-----------------------------------------------------------------------------
(* Reading an encoded fragment back: the manual split of the round trip *)

\* index of the first c in s, 0 when there is none
FirstIndex(s, c) ==
    LET I == {i \in 1..Len(s) : s[i] = c}
    IN  IF I = {} THEN 0 ELSE CHOOSE i \in I : \A j \in I : i <= j

RECURSIVE Split(_, _)
\* s.split(c)
Split(s, c) ==
    LET i == FirstIndex(s, c)
    IN  IF i = 0 THEN <<s>>
        ELSE <<SubSeq(s, 1, i - 1)>> \o Split(SubSeq(s, i + 1, Len(s)), c)

\* a piece "key=value" cut at its first key separator
CutPair(piece) ==
    LET i == FirstIndex(piece, _KVSEP[1])
    IN  IF i = 0 THEN <<piece, <<>>>>
        ELSE <<SubSeq(piece, 1, i - 1), SubSeq(piece, i + 1, Len(piece))>>

\* the key -> value-text pairs read back from a fragment
Decode(text) ==
    IF text = <<>> THEN {}
    ELSE LET pieces == Split(text, _KVPSEP[1])
         IN  {CutPair(pieces[i]) : i \in 1..Len(pieces)}

\* the pairs that went in, each value in its string form
Original(d) == {<<d[i][1], PyStr(d[i][2])>> : i \in 1..Len(d)}

NoValueHasPairSep(d) ==
    \A i \in 1..Len(d) :
        d[i][2].type = "str" => ~Contains(d[i][2].s, _KVPSEP[1])

NoValueIsEmpty(d) ==
    \A i \in 1..Len(d) : d[i][2].type = "str" => d[i][2].s # <<>>

\* C8 as stated: every attribute set in which no string value contains the
\* pair separator is recovered by splitting the fragment on ',' and on '='.
C8_RoundTripAsStated ==
    (kvpOut # None /\ NoValueHasPairSep(kvpIn))
        => Decode(Val(kvpOut)) = Original(kvpIn)

\* C8, amended: every attribute set in which no string value contains the
\* pair separator and no string value is empty is recovered, each value as
\* its string form, by splitting the fragment on ',' and each piece at its
\* first '='.
C8_RoundTrip ==
    (kvpOut # None /\ NoValueHasPairSep(kvpIn) /\ NoValueIsEmpty(kvpIn))
        => Decode(Val(kvpOut)) = Original(kvpIn)

\* two attributes, one a non-empty string holding '=', one an integer,
\* encoded and read back
C8_Witness ==
    /\ kvpOut # None
    /\ Len(kvpIn) = 2
    /\ NoValueHasPairSep(kvpIn) /\ NoValueIsEmpty(kvpIn)
    /\ kvpIn[1][2] = StrV(<<"u", "=", "v">>)
    /\ kvpIn[2][2].type = "int"
    /\ Decode(Val(kvpOut)) = Original(kvpIn)

\* the text after "key=" in the fragment of a one-attribute set
ValueText == SubSeq(Val(kvpOut), Len(kvpIn[1][1]) + 2, Len(Val(kvpOut)))

\* C9: the empty string encodes as the two characters '' and no non-empty
\* string value encodes to that text.
C9_EmptyDistinct ==
    (kvpOut # None /\ Len(kvpIn) = 1 /\ kvpIn[1][2].type = "str")
        => (ValueText = <<"'", "'">> <=> kvpIn[1][2].s = <<>>)

-----------------------------------------------------------------------------
(* Reading a message as the reader of the log does *)

StartsWith(s, p) == Len(s) >= Len(p) /\ SubSeq(s, 1, Len(p)) = p
Drop(s, n) == SubSeq(s, n + 1, Len(s))
IsDigit(c) == c \in {"0", "1", "2", "3", "4", "5", "6", "7", "8", "9"}
AllDigits(s) == Len(s) > 0 /\ \A i \in 1..Len(s) : IsDigit(s[i])

\* YYYY-MM-DDTHH:MM:SS at the head of s
IsIsoSeconds(s) ==
    /\ Len(s) >= 19
    /\ \A i \in 1..19 :
          CASE i \in {5, 8} -> s[i] = "-"
            [] i = 11 -> s[i] = "T"
            [] i \in {14, 17} -> s[i] = ":"
            [] OTHER -> IsDigit(s[i])

\* length of the ISO-8601 timestamp at the head of s, 0 when there is none
StampLen(s) ==
    IF ~IsIsoSeconds(s) THEN 0
    ELSE IF Len(s) >= 26 /\ s[20] = "." /\ AllDigits(SubSeq(s, 21, 26)) THEN 26
    ELSE 19

BeginsWithStamp(s) ==
    LET n == StampLen(s)
    IN  n > 0 /\ Len(s) > n /\ s[n + 1] = " "

\* the message after its timestamp and space, when it begins with them
Body(s) ==
    LET n == StampLen(s)
    IN  IF n > 0 /\ Len(s) > n /\ s[n + 1] = " " THEN Drop(s, n + 1) ELSE s

DigitVal(c) == CHOOSE d \in 0..9 : DigitChar(d) = c

RECURSIVE ParseNat(_)
ParseNat(s) ==
    IF s = <<>> THEN 0
    ELSE ParseNat(SubSeq(s, 1, Len(s) - 1)) * 10 + DigitVal(s[Len(s)])

\* seconds with six fractional digits: -?d+.dddddd
IsDurText(s) ==
    LET u == IF s # <<>> /\ s[1] = "-" THEN Tail(s) ELSE s
        i == FirstIndex(u, ".")
    IN  /\ i > 1
        /\ AllDigits(SubSeq(u, 1, i - 1))
        /\ Len(u) = i + 6
        /\ AllDigits(Drop(u, i))

\* the microseconds a duration text stands for
ParseDur(s) ==
    LET neg == s[1] = "-"
        u == IF neg THEN Tail(s) ELSE s
        i == FirstIndex(u, ".")
        x == ParseNat(SubSeq(u, 1, i - 1)) * 1000000 + ParseNat(Drop(u, i))
    IN  IF neg THEN -x ELSE x

\* the duration field of a message: the text between "(" and ")"
HasDur(m) ==
    LET a == FirstIndex(m, "(")
        b == FirstIndex(m, ")")
    IN  a > 0 /\ b > a /\ IsDurText(SubSeq(m, a + 1, b - 1))

DurText(m) == SubSeq(m, FirstIndex(m, "(") + 1, FirstIndex(m, ")") - 1)
DurOf(m) == ParseDur(DurText(m))

\* the whole microseconds nearest to ns nanoseconds: one, or the two
\* neighbours of an exact half
NearestMicros(ns) ==
    {m \in (ns \div 1000)..(ns \div 1000 + 1) :
        /\ 2 * (1000 * m - ns) <= 1000
        /\ 2 * (ns - 1000 * m) <= 1000}

\* ns nanoseconds to the nearest microsecond, a half away from zero
Micros(ns) == IF ns < 0 THEN -((500 - ns) \div 1000) ELSE (ns + 500) \div 1000

\* <name>.begin ; <kvp>
IsEntry(m, name, kvp) ==
    Body(m) = name \o BEGIN_TEXT \o <<" ", ";", " ">> \o kvp_str(kvp)

\* <name>.end (<duration>) ; <kvp>
IsExitWithDur(m, name, kvp) ==
    /\ StartsWith(Body(m), name \o END_TEXT \o <<" ", "(">>)
    /\ HasDur(m)
    /\ Drop(m, FirstIndex(m, ")") - 1) = <<")", " ", ";", " ">> \o kvp_str(kvp)

\* <name>.end ; <kvp>, and nothing else
IsExitNoDur(m, name, kvp) ==
    m = name \o END_TEXT \o <<" ", ";", " ">> \o kvp_str(kvp)

\* the calls made on behalf of an activity or an invocation
CallsOf(who) == {k \in 1..Len(calls) : calls[k].who = who}

-----------------------------------------------------------------------------
(* Claims about event, start and end (Spec) *)

\* C1: end emits <name>.end (<duration>) ; <kvp> if and only if a handle t0
\* is supplied, and <name>.end ; <kvp> with no duration field when none is,
\* in either template mode and for every attribute set.
C1_EndShape ==
    \A i \in 1..Len(calls) :
        calls[i].op = "end" =>
            IF calls[i].t0 # None
            THEN /\ IsExitWithDur(log[i].msg, calls[i].name, calls[i].kvp)
                 /\ ~IsExitNoDur(log[i].msg, calls[i].name, calls[i].kvp)
            ELSE /\ IsExitNoDur(log[i].msg, calls[i].name, calls[i].kvp)
                 /\ ~Contains(log[i].msg, "(")

\* an end with the handle of a start made at time 0, with attributes, in
\* timestamp mode, has been logged
C1_Witness ==
    /\ include_timestamp
    /\ Len(calls) = 2
    /\ calls[1].op = "start" /\ calls[1].t = 0
    /\ calls[2].op = "end" /\ calls[2].t0 = Some(0) /\ calls[2].t > 0
    /\ calls[2].kvp # <<>>
    /\ IsExitWithDur(log[2].msg, calls[2].name, calls[2].kvp)

\* C4: in timestamp mode every message that event, start and end produce
\* from the module's templates begins with an ISO-8601 timestamp and a space.
C4_AsStated ==
    include_timestamp =>
        \A i \in 1..Len(log) :
            calls[i].fmt = None => BeginsWithStamp(log[i].msg)

\* C7: the backend receives exactly one (severity, message) per call, in the
\* order of the calls.
C7_OnePerCallInOrder ==
    /\ Len(log) = Len(calls)
    /\ \A i \in 1..Len(calls) :
          LET c == calls[i]
              m == log[i].msg
          IN  /\ log[i].level = (IF c.level = None THEN 20 ELSE Val(c.level))
              /\ BeginsWithStamp(m) =>
                    \E up \in BOOLEAN :
                        SubSeq(m, 1, StampLen(m)) = format_timestamp(c.t, up)
              /\ CASE c.op = "start" -> IsEntry(m, c.name, c.kvp)
                   [] c.op = "end" /\ c.t0 # None ->
                          IsExitWithDur(m, c.name, c.kvp)
                   [] c.op = "end" /\ c.t0 = None ->
                          IsExitNoDur(m, c.name, c.kvp)
                   [] OTHER ->
                          StartsWith(Body(m), c.name)
                              /\ ~StartsWith(Body(m), c.name \o <<".">>)

\* two calls of different operations, names and severities, made at
\* different times, have been logged, with timestamps of a zone west of UTC
C7_Witness ==
    /\ include_timestamp /\ tz < 0
    /\ Len(calls) = 2 /\ Len(log) = 2
    /\ StartsWith(log[1].msg, <<"1", "9", "6", "9">>)
    /\ calls[1].op = "event" /\ calls[2].op = "start"
    /\ calls[1].name # calls[2].name
    /\ calls[1].level = Some(10) /\ calls[2].level = None
    /\ calls[1].t < calls[2].t

\* C10: the status_code passed to end is a field of the exit message, so
\* that the reader can recover it: two end calls that differ in nothing but
\* the status code are told apart by their messages.
C10_AsStated ==
    \A i, j \in 1..Len(calls) :
        ( /\ calls[i].op = "end" /\ calls[j].op = "end"
          /\ calls[i].status # calls[j].status
          /\ [calls[i] EXCEPT !.status = 0] = [calls[j] EXCEPT !.status = 0] )
            => log[i].msg # log[j].msg

-----------------------------------------------------------------------------
(* Claims about activities (SpecAct) *)

\* C5: the duration in the exit message of an end call given the handle of
\* an earlier start is (the time end read) - t0, to six digits, and it is
\* not negative.
C5_AsStated ==
    \A k \in 1..Len(calls) :
        (calls[k].op = "end" /\ calls[k].t0 # None) =>
            /\ HasDur(log[k].msg)
            /\ DurOf(log[k].msg) \in NearestMicros(calls[k].t - Val(calls[k].t0))
            /\ DurOf(log[k].msg) >= 0 /\ DurText(log[k].msg)[1] # "-"

\* the start and the end that an activity made
StartOf(a) == CHOOSE k \in CallsOf(<<"act", a>>) : calls[k].op = "start"
EndOf(a) == CHOOSE k \in CallsOf(<<"act", a>>) : calls[k].op = "end"

\* C6: every finished activity has one entry and one exit message, and the
\* duration of its exit message comes from the handle its own start
\* returned, whatever other activity of the same name is active; two
\* finished activities have sent four messages.
C6_OwnHandle ==
    /\ (\A a \in Acts : act[a].pc = "done") => Len(log) = 2 * Cardinality(Acts)
    /\ \A a \in Acts :
        act[a].pc = "done" =>
            /\ Cardinality(CallsOf(<<"act", a>>)) = 2
            /\ StartOf(a) < EndOf(a)
            /\ IsEntry(log[StartOf(a)].msg, act[a].name, kvpIn)
            /\ IsExitWithDur(log[EndOf(a)].msg, act[a].name, kvpIn)
            /\ DurOf(log[EndOf(a)].msg)
                  \in NearestMicros(calls[EndOf(a)].t - calls[StartOf(a)].t)

\* two activities of one name, started at different times and both active
\* before either ended, have both ended: four messages; the second one's
\* duration is not the difference of the two times as the timestamps show
\* them
C6_Witness ==
    /\ act[1].pc = "done" /\ act[2].pc = "done"
    /\ act[1].name = act[2].name
    /\ Len(log) = 4
    /\ StartOf(1) < StartOf(2) /\ StartOf(2) < EndOf(1) /\ EndOf(1) < EndOf(2)
    /\ calls[StartOf(1)].t # calls[StartOf(2)].t
    /\ DurOf(log[EndOf(1)].msg) # Micros(calls[EndOf(1)].t - calls[StartOf(2)].t)
    /\ DurOf(log[EndOf(2)].msg)
          # Micros(calls[EndOf(2)].t) - Micros(calls[StartOf(2)].t)

-----------------------------------------------------------------------------
(* Claims about the wrappers (SpecWrap) *)

EntriesOf(i) ==
    {k \in CallsOf(<<"inv", i>>) :
        StartsWith(Body(log[k].msg),
                   func_name(Val(inv[i].w)) \o <<".", "b", "e", "g", "i", "n">>)}

ExitsOf(i) ==
    {k \in CallsOf(<<"inv", i>>) :
        StartsWith(Body(log[k].msg),
                   func_name(Val(inv[i].w)) \o <<".", "e", "n", "d">>)}

\* C2: every invocation whose callable returned normally has sent exactly
\* one entry message before the callable ran with the caller's arguments,
\* and exactly one exit message after the callable returned, whose duration
\* is measured from the time its own start read; both messages carry the
\* wrapper's name, level and attributes, and the wrapper returned the
\* callable's result.
C2_AsStated ==
    \A i \in Invs :
        (inv[i].pc \in {"returned", "end_raised"}) =>
            LET w == Val(inv[i].w)
            IN  /\ Cardinality(EntriesOf(i)) = 1
                /\ Cardinality(ExitsOf(i)) = 1
                /\ Cardinality(CallsOf(<<"inv", i>>)) = 2
                /\ \A ks \in EntriesOf(i), ke \in ExitsOf(i) :
                      /\ ks <= inv[i].callAt
                      /\ inv[i].callAt <= inv[i].retAt
                      /\ inv[i].retAt < ke
                      /\ IsEntry(log[ks].msg, func_name(w), w.kvp)
                      /\ IsExitWithDur(log[ke].msg, func_name(w), w.kvp)
                      /\ DurOf(log[ke].msg)
                            \in NearestMicros(calls[ke].t - calls[ks].t)
                      /\ log[ks].level = w.level /\ log[ke].level = w.level
                /\ inv[i].recv = Some(inv[i].args)
                /\ inv[i].ret = inv[i].res /\ inv[i].ret # None

\* C3: when the callable failed, the invocation's entry message has been
\* sent, no exit message of it is sent, and the caller gets the same failure.
C3_FailurePropagates ==
    \A i \in Invs :
        inv[i].pc = "raised" =>
            /\ Cardinality(EntriesOf(i)) = 1
            /\ ExitsOf(i) = {}
            /\ CallsOf(<<"inv", i>>) = EntriesOf(i)
            /\ inv[i].exc = inv[i].raised /\ inv[i].exc # None
            /\ inv[i].ret = None

\* one invocation failed while another, begun later, returned
C3_Witness ==
    /\ inv[1].pc = "raised" /\ inv[2].pc = "returned"
    /\ inv[1].exc = Some("KeyError")
    /\ Len(log) = 3
    /\ calls[1].who = <<"inv", 1>>

====
